---- MODULE Spec2Model ----
(***************************************************************************)
(* Model of LlmSelector (src/src/langchain_decorators/common.py): the rule *)
(* table, the backend mapping, the token accounting, the two-pass          *)
(* selection and the cache of streaming clones.                            *)
(*                                                                         *)
(* Conventions                                                             *)
(*   - Python list positions and dict keys are kept 0-based (rules[i] of   *)
(*     the source is rules[i + 1] of the TLA+ sequence; see RuleAt).       *)
(*   - An Optional[...] value is a set: {} is None, {v} is the value v.    *)
(*   - A str that is pattern-matched is the tuple of its characters        *)
(*     (Chars); a str that is only measured and tokenized is a record of   *)
(*     its length and token counts (Prompt).                               *)
(*   - A float is the exact rational [num, den] (den > 0); the rounding of *)
(*     IEEE doubles is not modelled.                                       *)
(*   - A Python object is a record with an "id" field, its identity.       *)
(***************************************************************************)
EXTENDS Integers, Sequences, FiniteSets, TLC

VARIABLES
    rules,                      \* LlmSelector.rules: list of dict(max_tokens=..)
    llms,                       \* LlmSelector.llms: dict index -> backend
    streamable_llms_cache,      \* LlmSelector.streamable_llms_cache
    generation_min_tokens,      \* Optional[int]
    prompt_to_generation_ratio, \* Optional[float]
    nextId,                     \* identity of the next object constructed
    registered,                 \* history: per rule position, who was registered with it
    call,                       \* the last call made on the selector and its outcome
    threads,                    \* concurrent get_llm callers: position and locals
    stores                      \* history: the cache writes of the callers, in order

vars == <<rules, llms, streamable_llms_cache, generation_min_tokens,
          prompt_to_generation_ratio, nextId, registered, call, threads, stores>>

concurrent == <<threads, stores>>

selectorState == <<rules, llms, streamable_llms_cache>>

(***************************************************************************)
(* Bounds of the model.                                                    *)
(***************************************************************************)
MaxRules == 3

(***************************************************************************)
(* Python values.                                                          *)
(***************************************************************************)
None == {}

Some(v) == {v}

The(opt) == CHOOSE v \in opt : TRUE

\* bool(x) of an Optional[int]: None and 0 are falsy
TruthyInt(opt) == opt # None /\ The(opt) # 0

\* bool(x) of an Optional[float] held as a rational
TruthyFloat(opt) == opt # None /\ The(opt).num # 0

Rat(n, d) == [num |-> n, den |-> d]

RatLess(a, b) == a.num * b.den < b.num * a.den

RatLeq(a, b) == a.num * b.den <= b.num * a.den

RatEq(a, b) == a.num * b.den = b.num * a.den

(***************************************************************************)
(* re.match for the regular expressions of MODEL_LIMITS.  A pattern is a   *)
(* syntax tree; MatchEnds gives every offset at which a match starting at  *)
(* one of the offsets of `from` can end.                                   *)
(***************************************************************************)
Digits == {"0", "1", "2", "3", "4", "5", "6", "7", "8", "9"}

Chr(c) == [t |-> "chr", c |-> c]

Dot == [t |-> "dot"]

Digit == [t |-> "digit"]

Cat(rs) == [t |-> "seq", rs |-> rs]

Star(r) == [t |-> "star", r |-> r]

Plus(r) == [t |-> "plus", r |-> r]

Opt(r) == [t |-> "opt", r |-> r]

Lit(chars) == Cat([i \in 1..Len(chars) |-> Chr(chars[i])])

RECURSIVE MatchEnds(_, _, _)
RECURSIVE StarEnds(_, _, _)
MatchEnds(r, s, from) ==
    CASE r.t = "chr" ->
           {j + 1 : j \in {k \in from : k < Len(s) /\ s[k + 1] = r.c}}
      [] r.t = "dot" ->
           {j + 1 : j \in {k \in from : k < Len(s) /\ s[k + 1] # "\n"}}
      [] r.t = "digit" ->
           {j + 1 : j \in {k \in from : k < Len(s) /\ s[k + 1] \in Digits}}
      [] r.t = "seq" ->
           IF r.rs = <<>> THEN from
           ELSE MatchEnds(Cat(Tail(r.rs)), s, MatchEnds(Head(r.rs), s, from))
      [] r.t = "opt" -> from \cup MatchEnds(r.r, s, from)
      [] r.t = "star" -> StarEnds(r.r, s, from)
      [] r.t = "plus" -> StarEnds(r.r, s, MatchEnds(r.r, s, from))

StarEnds(r, s, from) ==
    LET more == from \cup MatchEnds(r, s, from)
    IN  IF more = from THEN from ELSE StarEnds(r, s, more)

\* re.match(pattern, string): a match anchored at the start, not at the end
ReMatch(pattern, s) == MatchEnds(pattern, s, {0}) # {}

(***************************************************************************)
(* MODEL_LIMITS, in the iteration order of the dict: a key written twice   *)
(* keeps the position of its first occurrence.                             *)
(***************************************************************************)
MODEL_LIMITS ==
    << \* "gpt-3.5-turbo-16k.*"
       [pattern |-> Cat(<<Lit(<<"g", "p", "t", "-", "3">>), Dot,
                          Lit(<<"5", "-", "t", "u", "r", "b", "o", "-", "1", "6", "k">>),
                          Star(Dot)>>),
        max_tokens |-> 16384],
       \* "gpt-3.5-turbo.*"
       [pattern |-> Cat(<<Lit(<<"g", "p", "t", "-", "3">>), Dot,
                          Lit(<<"5", "-", "t", "u", "r", "b", "o">>),
                          Star(Dot)>>),
        max_tokens |-> 4096],
       \* "text-davinci-003.*"
       [pattern |-> Cat(<<Lit(<<"t", "e", "x", "t", "-", "d", "a", "v", "i", "n",
                                "c", "i", "-", "0", "0", "3">>), Star(Dot)>>),
        max_tokens |-> 4097],
       \* "code-davinci-002.*"
       [pattern |-> Cat(<<Lit(<<"c", "o", "d", "e", "-", "d", "a", "v", "i", "n",
                                "c", "i", "-", "0", "0", "2">>), Star(Dot)>>),
        max_tokens |-> 8001],
       \* "gpt-4-32k.*"
       [pattern |-> Cat(<<Lit(<<"g", "p", "t", "-", "4", "-", "3", "2", "k">>),
                          Star(Dot)>>),
        max_tokens |-> 32768],
       \* "gpt-4.*"
       [pattern |-> Cat(<<Lit(<<"g", "p", "t", "-", "4">>), Star(Dot)>>),
        max_tokens |-> 8192],
       \* "claude-v1"
       [pattern |-> Lit(<<"c", "l", "a", "u", "d", "e", "-", "v", "1">>),
        max_tokens |-> 9000],
       \* r"claude-v\d(\.\d+)?-100k"
       [pattern |-> Cat(<<Lit(<<"c", "l", "a", "u", "d", "e", "-", "v">>), Digit,
                          Opt(Cat(<<Chr("."), Plus(Digit)>>)),
                          Lit(<<"-", "1", "0", "0", "k">>)>>),
        max_tokens |-> 100000] >>

\* mutant of ModelWindowFrom: the last matching pattern wins
RECURSIVE ModelWindowLastMatch(_, _)
ModelWindowLastMatch(model_name, k) ==
    IF k > Len(MODEL_LIMITS) THEN None
    ELSE LET later == ModelWindowLastMatch(model_name, k + 1)
         IN  IF later # None THEN later
             ELSE IF ReMatch(MODEL_LIMITS[k].pattern, model_name)
                  THEN Some(MODEL_LIMITS[k].max_tokens)
                  ELSE None

\* mutant of ModelWindowFrom: a model that matches no pattern gets 4096
RECURSIVE ModelWindowDefault(_, _)
ModelWindowDefault(model_name, k) ==
    IF k > Len(MODEL_LIMITS) THEN Some(4096)
    ELSE IF ReMatch(MODEL_LIMITS[k].pattern, model_name)
         THEN Some(MODEL_LIMITS[k].max_tokens)
         ELSE ModelWindowDefault(model_name, k + 1)

\* the for loop of get_model_window from table position k on
RECURSIVE ModelWindowFrom(_, _)
ModelWindowFrom(model_name, k) ==
    IF k > Len(MODEL_LIMITS) THEN None
    ELSE IF ReMatch(MODEL_LIMITS[k].pattern, model_name)
         THEN Some(MODEL_LIMITS[k].max_tokens)
         ELSE ModelWindowFrom(model_name, k + 1)

get_model_window(model_name) == ModelWindowFrom(model_name, 1)

(***************************************************************************)
(* Backends (BaseLanguageModel objects).  cls is the class of the object,  *)
(* which also fixes its tokenizer; model_name and streaming are the        *)
(* keyword arguments it was constructed with (lc_kwargs).                  *)
(***************************************************************************)
LlmA == [id |-> 1, cls |-> "ChatOpenAI", streaming |-> FALSE,
         model_name |-> "gpt-3.5-turbo-16k-0613"]

LlmB == [id |-> 2, cls |-> "ChatOpenAI", streaming |-> TRUE,
         model_name |-> "gpt-4-32k"]

LlmC == [id |-> 3, cls |-> "LocalLlm", streaming |-> FALSE,
         model_name |-> "my-local-llm"]

Backends == {LlmA, LlmB, LlmC}

Classes == {b.cls : b \in Backends}

\* the characters of the model names in use
Chars(name) ==
    CASE name = "gpt-3.5-turbo-16k-0613" ->
           <<"g", "p", "t", "-", "3", ".", "5", "-", "t", "u", "r", "b", "o",
             "-", "1", "6", "k", "-", "0", "6", "1", "3">>
      [] name = "gpt-4-32k" -> <<"g", "p", "t", "-", "4", "-", "3", "2", "k">>
      [] name = "my-local-llm" ->
           <<"m", "y", "-", "l", "o", "c", "a", "l", "-", "l", "l", "m">>
      [] name = "gpt-3.5-turbo" ->
           <<"g", "p", "t", "-", "3", ".", "5", "-", "t", "u", "r", "b", "o">>
      [] name = "gpt-4" ->
           <<"g", "p", "t", "-", "4">>
      [] name = "text-davinci-003" ->
           <<"t", "e", "x", "t", "-", "d", "a", "v", "i", "n", "c", "i", "-", "0", "0", "3">>
      [] name = "claude-v1" ->
           <<"c", "l", "a", "u", "d", "e", "-", "v", "1">>
      [] name = "claude-v1-100k" ->
           <<"c", "l", "a", "u", "d", "e", "-", "v", "1", "-", "1", "0", "0", "k">>
      [] name = "claude-v1.3-100k" ->
           <<"c", "l", "a", "u", "d", "e", "-", "v", "1", ".", "3", "-", "1", "0", "0", "k">>
      [] name = "claude-v2-100k" ->
           <<"c", "l", "a", "u", "d", "e", "-", "v", "2", "-", "1", "0", "0", "k">>

\* get_model_window(llm.model_name) of every backend in use, computed once
ModelWindow == [b \in Backends |-> get_model_window(Chars(b.model_name))]

\* the (llm, max_tokens) arguments with_llm_rule is called with
RuleArgs ==
    { <<LlmA, 100>>, <<LlmB, 500>>, <<LlmC, 2000>>, <<LlmC, 100>> }

lc_kwargs(llm) == [model_name |-> llm.model_name, streaming |-> llm.streaming]

\* cls(**kwargs): a new object of class cls
Construct(id, cls, kwargs) ==
    [id |-> id, cls |-> cls, streaming |-> kwargs.streaming,
     model_name |-> kwargs.model_name]

make_llm_streamable(llm, id) == Construct(id, llm.cls, lc_kwargs(llm))

(***************************************************************************)
(* Prompts.  kind is "str" or "list" (of messages), len is len(prompt),    *)
(* tokens[c] is what the tokenizer of class c counts for it.               *)
(***************************************************************************)
Prompt(kind, len, openai, local) ==
    [kind |-> kind, len |-> len,
     tokens |-> [c \in Classes |-> IF c = "ChatOpenAI" THEN openai ELSE local]]

\* function_schemas: None, or a list whose json.dumps is the str `dumped`
NoSchemas == None

SomeSchemas == Some([dumped |-> Prompt("str", 40, 10, 12)])

json_dumps(function_schemas) == The(function_schemas).dumped

Req(prompt, function_schemas, expected_generated_tokens, streaming) ==
    [prompt |-> prompt, function_schemas |-> function_schemas,
     expected_generated_tokens |-> expected_generated_tokens,
     streaming |-> streaming]

\* the arguments get_llm is called with; the totals in the comments are for
\* the default ratio 1/3, no minimum and a ChatOpenAI tokenizer
Requests ==
    { \* estimate 80, exact 80
      Req(Prompt("str", 120, 60, 60), NoSchemas, Some(20), FALSE),
      Req(Prompt("str", 120, 60, 60), NoSchemas, Some(20), TRUE),
      \* estimate 100, exact 80
      Req(Prompt("str", 160, 60, 75), NoSchemas, Some(20), FALSE),
      \* estimate 70, exact 450
      Req(Prompt("str", 100, 430, 500), NoSchemas, Some(20), FALSE),
      \* estimate 450, exact 450
      Req(Prompt("str", 860, 430, 430), NoSchemas, Some(20), FALSE),
      Req(Prompt("str", 860, 430, 430), NoSchemas, Some(20), TRUE),
      \* 7 messages and schemas: estimate (3 + 20) * 4/3, exact (480 + 10) * 4/3
      Req(Prompt("list", 7, 480, 600), SomeSchemas, None, FALSE),
      \* estimate 245, exact 100
      Req(Prompt("str", 450, 80, 90), NoSchemas, Some(20), FALSE),
      \* estimate 50000, exact 50000
      Req(Prompt("str", 99960, 49980, 49980), NoSchemas, Some(20), FALSE) }

\* the tokenizer capability of a backend
get_num_tokens(llm, prompt) == prompt.tokens[llm.cls]

get_num_tokens_from_messages(llm, prompt) == prompt.tokens[llm.cls]

count_tokens(prompt, llm) ==
    IF prompt.kind = "str" THEN get_num_tokens(llm, prompt)
    ELSE get_num_tokens_from_messages(llm, prompt)

(***************************************************************************)
(* Token accounting of a selector whose backend mapping is ls.             *)
(***************************************************************************)
\* mutant of TokenizerLlm: the backend of the last position counts
TokenizerLlmLast(ls) == ls[CHOOSE k \in DOMAIN ls : \A j \in DOMAIN ls : j <= k]

\* `llm=self.llms[0]`
TokenizerLlm(ls) == ls[0]

RECURSIVE get_token_count(_, _, _, _)
get_token_count(ls, prompt, function_schemas, estimate) ==
    LET num_tokens == IF estimate THEN prompt.len \div 2
                      ELSE count_tokens(prompt, TokenizerLlm(ls))
    IN  IF function_schemas # None
        THEN num_tokens
               + get_token_count(ls, json_dumps(function_schemas), None, estimate)
        ELSE num_tokens

get_expected_total_tokens(ls, gmin, ratio, prompt, function_schemas, estimate, expected) ==
    LET expected_generated_tokens ==
            IF TruthyInt(expected) THEN The(expected)
            ELSE IF TruthyInt(gmin) THEN The(gmin) ELSE 0
        prompt_tokens == get_token_count(ls, prompt, function_schemas, estimate)
        r == IF TruthyFloat(ratio) THEN The(ratio) ELSE Rat(0, 1)
    IN  IF expected_generated_tokens # 0
        THEN Rat(prompt_tokens + expected_generated_tokens, 1)
        ELSE Rat(prompt_tokens * (r.den + r.num), r.den)

(***************************************************************************)
(* The rule table.                                                         *)
(***************************************************************************)
RuleAt(rs, i) == rs[i + 1]

\* list.insert(i, x) for 0 <= i <= len
ListInsert(s, i, x) == SubSeq(s, 1, i) \o <<x>> \o SubSeq(s, i + 1, Len(s))

\* mutant of DictSet: the assignment writes v under every key of the dict
DictSetEvery(d, k, v) == [j \in DOMAIN d \cup {k} |-> v]

\* dict[k] = v
DictSet(d, k, v) == [j \in DOMAIN d \cup {k} |-> IF j = k THEN v ELSE d[j]]

EmptyDict == [j \in {} |-> None]

\* mutant of InsertScan: the scan also stops at a rule with an equal threshold
RECURSIVE InsertScanBeforeEqual(_, _, _, _)
InsertScanBeforeEqual(rs, max_tokens, k, i) ==
    IF k >= Len(rs) THEN i
    ELSE LET rule_max_token == RuleAt(rs, k).max_tokens
         IN  IF rule_max_token # 0 /\ rule_max_token >= max_tokens
             THEN k - 1
             ELSE InsertScanBeforeEqual(rs, max_tokens, k + 1, k)

\* the for loop of with_llm_rule from position k on; i is the loop variable
\* as the previous iteration left it
RECURSIVE InsertScan(_, _, _, _)
InsertScan(rs, max_tokens, k, i) ==
    IF k >= Len(rs) THEN i
    ELSE LET rule_max_token == RuleAt(rs, k).max_tokens
         IN  IF rule_max_token # 0 /\ rule_max_token > max_tokens
             THEN k - 1
             ELSE InsertScan(rs, max_tokens, k + 1, k)

\* mutant of InsertIndex: the rule is appended, whatever its threshold
InsertIndexAppend(rs, max_tokens) == Len(rs)

\* the position with_llm_rule inserts at
InsertIndex(rs, max_tokens) == InsertScan(rs, max_tokens, 0, -1) + 1

\* mutant of SelectScan: a rule covers a total only when strictly greater
RECURSIVE SelectScanStrict(_, _, _)
SelectScanStrict(rs, total_tokens, k) ==
    IF k >= Len(rs) THEN Len(rs) - 1
    ELSE LET max_tokens == RuleAt(rs, k).max_tokens
         IN  IF max_tokens # 0 /\ RatLess(total_tokens, Rat(max_tokens, 1))
             THEN k
             ELSE SelectScanStrict(rs, total_tokens, k + 1)

\* mutant of SelectScan: a total no rule covers goes to the next tier
RECURSIVE SelectScanNextTier(_, _, _)
SelectScanNextTier(rs, total_tokens, k) ==
    IF k >= Len(rs) THEN Len(rs)
    ELSE LET max_tokens == RuleAt(rs, k).max_tokens
         IN  IF max_tokens # 0 /\ RatLeq(total_tokens, Rat(max_tokens, 1))
             THEN k
             ELSE SelectScanNextTier(rs, total_tokens, k + 1)

\* the for loop of get_llm from position k on, and the assignment after it
RECURSIVE SelectScan(_, _, _)
SelectScan(rs, total_tokens, k) ==
    IF k >= Len(rs) THEN Len(rs) - 1
    ELSE LET max_tokens == RuleAt(rs, k).max_tokens
         IN  IF max_tokens # 0 /\ RatLeq(total_tokens, Rat(max_tokens, 1))
             THEN k
             ELSE SelectScan(rs, total_tokens, k + 1)

(***************************************************************************)
(* The record of the last call: what was called with which arguments, the  *)
(* exception it raised ("none" when it returned), and what it computed.    *)
(***************************************************************************)
NoCall ==
    [op |-> "init", llm |-> None, max_tokens |-> None, request |-> None,
     raised |-> "none", index |-> None, returned |-> None,
     estimate_total |-> None, exact_total |-> None, counted_with |-> {},
     constructed |-> None]

GenMinChoices == {None}

\* the concurrent callers of get_llm, and a caller that has not called
Threads == {1, 2}

Idle == [pc |-> "idle", request |-> None, index |-> None, clone |-> None,
         returned |-> None]

RatioChoices == {Some(Rat(1, 3))}

\* LlmSelector.__init__ and the field defaults
Init ==
    /\ rules = <<>>
    /\ llms = EmptyDict
    /\ streamable_llms_cache = EmptyDict
    /\ generation_min_tokens \in GenMinChoices
    /\ prompt_to_generation_ratio \in RatioChoices
    /\ nextId = Cardinality(Backends) + 1
    /\ registered = <<>>
    /\ call = NoCall
    /\ threads = [t \in Threads |-> Idle]
    /\ stores = <<>>

\* the body of with_llm_rule, called as operation op
Register(op, llm, max_tokens) ==
    LET i == InsertIndex(rules, max_tokens)
    IN  /\ rules' = ListInsert(rules, i, [max_tokens |-> max_tokens])
        /\ llms' = DictSet(llms, i, llm)
        /\ registered' = ListInsert(registered, i,
                                    [llm |-> llm, seq |-> Len(registered) + 1])
        /\ call' = [NoCall EXCEPT !.op = op, !.llm = Some(llm),
                                  !.max_tokens = Some(max_tokens),
                                  !.index = Some(i)]
        /\ UNCHANGED <<streamable_llms_cache, generation_min_tokens,
                       prompt_to_generation_ratio, nextId>>

with_llm_rule(llm, max_tokens) ==
    /\ Len(rules) < MaxRules
    /\ Register("with_llm_rule", llm, max_tokens)

with_llm(llm) ==
    LET max_tokens == ModelWindow[llm]
    IN  IF TruthyInt(max_tokens)
        THEN /\ Len(rules) < MaxRules
             /\ Register("with_llm", llm, The(max_tokens))
        ELSE /\ call' = [NoCall EXCEPT !.op = "with_llm", !.llm = Some(llm),
                                       !.raised = "Exception"]
             /\ UNCHANGED <<rules, llms, streamable_llms_cache,
                            generation_min_tokens, prompt_to_generation_ratio,
                            nextId, registered>>

\* mutant of NoLlms: the check for an empty selector is missing
NoLlmsUnchecked(ls) == FALSE

\* `not self.llms`
NoLlms(ls) == DOMAIN ls = {}

\* mutant of CacheMiss: the cache is never consulted
CacheMissAlways(cache, result_index) == TRUE

\* `result_index not in self.streamable_llms_cache`
CacheMiss(cache, result_index) == result_index \notin DOMAIN cache

\* mutant of FastPath: an estimate equal to the threshold is fast too
FastPathOrEqual(total_tokens_estimate, first_token_threshold) ==
    RatLeq(total_tokens_estimate, Rat(first_token_threshold, 1))

\* `total_tokens_estimate<first_token_threshold`
FastPath(total_tokens_estimate, first_token_threshold) ==
    RatLess(total_tokens_estimate, Rat(first_token_threshold, 1))

\* the rule position get_llm resolves, from the two totals
ResultIndex(rs, total_tokens_estimate, total_tokens) ==
    IF FastPath(total_tokens_estimate, RuleAt(rs, 0).max_tokens)
    THEN 0
    ELSE SelectScan(rs, total_tokens, 0)

get_llm(req) ==
    LET base == [NoCall EXCEPT !.op = "get_llm", !.request = Some(req)]
    IN
    IF NoLlms(llms)
    THEN /\ call' = [base EXCEPT !.raised = "Exception"]
         /\ UNCHANGED <<rules, llms, streamable_llms_cache, generation_min_tokens,
                        prompt_to_generation_ratio, nextId, registered>>
    ELSE IF Len(rules) = 0
    THEN \* self.rules[0] of an empty list
         /\ call' = [base EXCEPT !.raised = "IndexError"]
         /\ UNCHANGED <<rules, llms, streamable_llms_cache, generation_min_tokens,
                        prompt_to_generation_ratio, nextId, registered>>
    ELSE
      LET first_token_threshold == RuleAt(rules, 0).max_tokens
          total_tokens_estimate ==
              get_expected_total_tokens(llms, generation_min_tokens,
                  prompt_to_generation_ratio, req.prompt, req.function_schemas,
                  TRUE, req.expected_generated_tokens)
          fast == FastPath(total_tokens_estimate, first_token_threshold)
          total_tokens ==
              get_expected_total_tokens(llms, generation_min_tokens,
                  prompt_to_generation_ratio, req.prompt, req.function_schemas,
                  FALSE, req.expected_generated_tokens)
          result_index == ResultIndex(rules, total_tokens_estimate, total_tokens)
          counted == [base EXCEPT
                        !.estimate_total = Some(total_tokens_estimate),
                        !.exact_total = IF fast THEN None ELSE Some(total_tokens),
                        !.counted_with = IF fast THEN {} ELSE {TokenizerLlm(llms).id},
                        !.index = Some(result_index)]
      IN
      IF result_index \notin DOMAIN llms
      THEN \* self.llms[result_index] of the trace line
           /\ call' = [counted EXCEPT !.raised = "KeyError"]
           /\ UNCHANGED <<rules, llms, streamable_llms_cache,
                          generation_min_tokens, prompt_to_generation_ratio,
                          nextId, registered>>
      ELSE IF req.streaming
      THEN IF CacheMiss(streamable_llms_cache, result_index)
           THEN LET clone == make_llm_streamable(llms[result_index], nextId)
                IN  /\ streamable_llms_cache' =
                           DictSet(streamable_llms_cache, result_index, clone)
                    /\ nextId' = nextId + 1
                    /\ call' = [counted EXCEPT !.returned = Some(clone),
                                               !.constructed = Some(clone)]
                    /\ UNCHANGED <<rules, llms, generation_min_tokens,
                                   prompt_to_generation_ratio, registered>>
           ELSE /\ call' = [counted EXCEPT
                              !.returned = Some(streamable_llms_cache[result_index])]
                /\ UNCHANGED <<rules, llms, streamable_llms_cache,
                               generation_min_tokens, prompt_to_generation_ratio,
                               nextId, registered>>
      ELSE /\ call' = [counted EXCEPT !.returned = Some(llms[result_index])]
           /\ UNCHANGED <<rules, llms, streamable_llms_cache,
                          generation_min_tokens, prompt_to_generation_ratio,
                          nextId, registered>>

Next ==
    \/ \E a \in RuleArgs : with_llm_rule(a[1], a[2]) /\ UNCHANGED concurrent
    \/ \E llm \in Backends : with_llm(llm) /\ UNCHANGED concurrent
    \/ \E req \in Requests : get_llm(req) /\ UNCHANGED concurrent

Spec == Init /\ [][Next]_vars

(***************************************************************************)
(* Properties.                                                             *)
(***************************************************************************)
MinOf(S) == CHOOSE x \in S : \A y \in S : x <= y

Threshold(i) == RuleAt(rules, i).max_tokens

Positions == 0..(Len(rules) - 1)

\* the backend that was registered together with the rule now at position i
RegisteredAt(i) == registered[i + 1].llm

\* every registration so far was given a threshold >= all earlier ones
AscendingRegistrations == \A i \in 1..Len(registered) : registered[i].seq = i

EstimateTotal(req) ==
    get_expected_total_tokens(llms, generation_min_tokens,
        prompt_to_generation_ratio, req.prompt, req.function_schemas, TRUE,
        req.expected_generated_tokens)

ExactTotal(req) ==
    get_expected_total_tokens(llms, generation_min_tokens,
        prompt_to_generation_ratio, req.prompt, req.function_schemas, FALSE,
        req.expected_generated_tokens)

Covering(total) == {i \in Positions : RatLeq(total, Rat(Threshold(i), 1))}

\* the first rule whose threshold is >= total, the last rule when there is none
FirstCovering(total) ==
    IF Covering(total) = {} THEN Len(rules) - 1 ELSE MinOf(Covering(total))

BelowFirst(total) == RatLess(total, Rat(Threshold(0), 1))

\* the last call was get_llm, on a selector that has rules
Selected == call.op = "get_llm" /\ Len(rules) > 0

\* the last call returned the backend b, or with streaming=True a clone of it
ReturnedFor(b) ==
    /\ call.raised = "none"
    /\ call.returned # None
    /\ IF The(call.request).streaming
       THEN /\ The(call.returned).cls = b.cls
            /\ The(call.returned).model_name = b.model_name
       ELSE call.returned = Some(b)

\* C1 as stated: with rules registered in ascending threshold order, get_llm
\* returns the backend of the first rule whose threshold is >= the exact
\* total, the last rule's when none is, whatever the estimate is.
C1_FirstCoveringWhateverEstimate ==
    (Selected /\ AscendingRegistrations) =>
        LET i == FirstCovering(ExactTotal(The(call.request)))
        IN  ReturnedFor(RegisteredAt(i))

\* C1 amended: with rules registered in ascending threshold order, get_llm
\* returns the backend of the first rule whose threshold is >= the exact
\* total (the last rule's when none is) when the estimated total is >= the
\* first threshold, and the first rule's backend when the estimated total is
\* strictly less than the first threshold.
C1_FirstCoveringUnlessFastPath ==
    (Selected /\ AscendingRegistrations) =>
        LET req == The(call.request)
            i == IF BelowFirst(EstimateTotal(req)) THEN 0
                 ELSE FirstCovering(ExactTotal(req))
        IN  ReturnedFor(RegisteredAt(i))

\* rules [(100, A), (500, B), (2000, C)], exact total 450 on the slow path: B
C1_Witness ==
    /\ Selected /\ AscendingRegistrations
    /\ rules = <<[max_tokens |-> 100], [max_tokens |-> 500], [max_tokens |-> 2000]>>
    /\ ~BelowFirst(EstimateTotal(The(call.request)))
    /\ RatEq(ExactTotal(The(call.request)), Rat(450, 1))
    /\ call.returned = Some(LlmB)

\* C2: every rule position has an entry in the backend mapping, and it is
\* the backend that was registered together with the rule now there.
C2_BackendsTravelWithRules ==
    \A i \in Positions : i \in DOMAIN llms /\ llms[i] = RegisteredAt(i)

\* C3: the rule table is sorted in non-decreasing order of threshold.
C3_RulesSorted ==
    \A i \in Positions : \A j \in Positions : i < j => Threshold(i) <= Threshold(j)

\* a full table whose first rule was registered last
C3_Witness ==
    /\ Len(rules) = MaxRules
    /\ registered[1].seq = MaxRules
    /\ Threshold(0) < Threshold(1)

\* C4: a get_llm call that reaches the exact scan with an exact total above
\* every threshold raises no error and returns the backend registered with
\* the last rule, whatever the order of registration.
C4_FallbackToLastRule ==
    (Selected /\ ~BelowFirst(EstimateTotal(The(call.request)))
              /\ Covering(ExactTotal(The(call.request))) = {}) =>
        ReturnedFor(RegisteredAt(Len(rules) - 1))

\* C5: get_llm on a selector without rules raises the configuration error
\* before counting any token, and the selector stays empty.
C5_EmptySelectorRaises ==
    (call.op = "get_llm" /\ Len(rules) = 0) =>
        /\ call.raised = "Exception"
        /\ call.returned = None
        /\ call.estimate_total = None /\ call.exact_total = None
        /\ call.counted_with = {}
        /\ llms = EmptyDict
        /\ streamable_llms_cache = EmptyDict

\* a streaming get_llm on a selector without rules
C5_Witness ==
    /\ call.op = "get_llm" /\ Len(rules) = 0
    /\ The(call.request).streaming
    /\ call.raised = "Exception"

\* the call c was a get_llm with streaming=True that returned
StreamingReturn(c) ==
    c.op = "get_llm" /\ c.raised = "none" /\ The(c.request).streaming

\* C6: the cache of a fresh selector is empty, and of two consecutive
\* get_llm calls with streaming=True that resolve the same rule index the
\* second returns the very object the first returned and constructs nothing.
C6_CachedCloneReused ==
    /\ streamable_llms_cache = EmptyDict
    /\ [][(StreamingReturn(call) /\ StreamingReturn(call')
             /\ call'.index = call.index) =>
            /\ call'.returned = call.returned
            /\ call'.constructed = None
            /\ nextId' = nextId
            /\ streamable_llms_cache' = streamable_llms_cache]_vars

\* a streaming get_llm served from the cache
C6_Witness ==
    /\ StreamingReturn(call)
    /\ call.constructed = None
    /\ call.returned = Some(streamable_llms_cache[The(call.index)])

\* C7: what get_llm returns with streaming=True has streaming enabled and
\* otherwise the configuration of the chosen backend.
C7_StreamingCloneStreams ==
    StreamingReturn(call) =>
        LET clone == The(call.returned)
            chosen == llms[The(call.index)]
        IN  /\ clone.streaming = TRUE
            /\ clone.cls = chosen.cls
            /\ clone.model_name = chosen.model_name

\* the limit of the first pattern of MODEL_LIMITS, in declaration order,
\* that matches the name of each backend
Matching(llm) ==
    {k \in 1..Len(MODEL_LIMITS) :
        ReMatch(MODEL_LIMITS[k].pattern, Chars(llm.model_name))}

FirstMatchLimit ==
    [b \in Backends |->
        IF Matching(b) = {} THEN None
        ELSE Some(MODEL_LIMITS[MinOf(Matching(b))].max_tokens)]

\* C8: with_llm registers the backend with the limit of the first matching
\* pattern (16384 for "gpt-3.5-turbo-16k-0613", 32768 for "gpt-4-32k"), at
\* the position with_llm_rule gives a rule of that threshold: after every
\* rule with a threshold <= it and before every rule with a greater one.
C8_FirstMatchingPattern ==
    (call.op = "with_llm" /\ call.raised = "none") =>
        LET llm == The(call.llm)
            i == The(call.index)
        IN  /\ FirstMatchLimit[llm] = Some(Threshold(i))
            /\ llm.model_name = "gpt-3.5-turbo-16k-0613" => Threshold(i) = 16384
            /\ llm.model_name = "gpt-4-32k" => Threshold(i) = 32768
            /\ llms[i] = llm
            /\ \A j \in Positions : j < i => Threshold(j) <= Threshold(i)
            /\ \A j \in Positions : j > i => Threshold(j) > Threshold(i)

\* "gpt-4-32k" registered next to "gpt-3.5-turbo-16k-0613"
C8_Witness ==
    /\ call.op = "with_llm" /\ call.llm = Some(LlmB)
    /\ Threshold(The(call.index)) = 32768
    /\ \E i \in Positions : Threshold(i) = 16384 /\ llms[i] = LlmA

UnknownBackends == {b \in Backends : Matching(b) = {}}

\* C9: with_llm for a backend whose model name matches no pattern raises
\* and leaves rules, llms and the streaming cache as they were.
C9_UnknownModelRaises ==
    [][(call'.op = "with_llm" /\ The(call'.llm) \in UnknownBackends) =>
         (call'.raised = "Exception" /\ UNCHANGED selectorState)]_vars

\* with_llm refused an unknown model on a selector with rules and a cache
C9_Witness ==
    /\ call.op = "with_llm" /\ call.raised = "Exception"
    /\ call.llm = Some(LlmC)
    /\ Len(rules) > 1
    /\ DOMAIN streamable_llms_cache # {}

\* among rules of equal threshold, the later registered comes later
TiesInRegistrationOrder ==
    \A i \in Positions : \A j \in Positions :
        (i < j /\ Threshold(i) = Threshold(j)) =>
            registered[i + 1].seq < registered[j + 1].seq

\* C10: a registration inserts the rule immediately before the first rule
\* with a strictly greater threshold, at the end when there is none, so
\* that rules of equal threshold stay in the order of their registration.
C10_InsertBeforeFirstGreater ==
    [][(Len(rules') = Len(rules) + 1) =>
         LET max_tokens == The(call'.max_tokens)
             greater == {i \in Positions : Threshold(i) > max_tokens}
             p == IF greater = {} THEN Len(rules) ELSE MinOf(greater)
         IN  /\ rules' = ListInsert(rules, p, [max_tokens |-> max_tokens])
             /\ registered' = ListInsert(registered, p,
                                  [llm |-> The(call'.llm), seq |-> Len(rules) + 1])
             /\ TiesInRegistrationOrder']_vars

\* a rule registered third, placed after its equal and before a greater one
C10_Witness ==
    /\ call.op = "with_llm_rule" /\ call.index = Some(1)
    /\ Len(rules) = 3
    /\ Threshold(0) = Threshold(1) /\ Threshold(1) < Threshold(2)
    /\ registered[2].seq = 3


(***************************************************************************)
(* The counting functions and the window table called on their own:        *)
(* get_expected_total_tokens and get_model_window are public, and a caller *)
(* may pass any expected_generated_tokens, 0 included, to a selector       *)
(* constructed with any generation_min_tokens and ratio.                   *)
(***************************************************************************)
MaxCountRules == 1

\* the constructor arguments of the selectors whose counts are taken
CountGenMinChoices == {None, Some(0), Some(50)}

CountRatioChoices == {None, Some(Rat(1, 3))}

CountRequests ==
    { Req(p, fs, e, FALSE) :
        p \in {Prompt("str", 120, 60, 60), Prompt("str", 160, 60, 75)},
        fs \in {NoSchemas, SomeSchemas},
        e \in {None, Some(0), Some(20)} }

ModelNames ==
    {"gpt-3.5-turbo-16k-0613", "gpt-3.5-turbo", "gpt-4-32k", "gpt-4",
     "text-davinci-003", "claude-v1", "claude-v1-100k", "claude-v1.3-100k",
     "claude-v2-100k", "my-local-llm"}

\* get_model_window of every name asked about, computed once
WindowOf == [n \in ModelNames |-> get_model_window(Chars(n))]

InitCount ==
    /\ rules = <<>>
    /\ llms = EmptyDict
    /\ streamable_llms_cache = EmptyDict
    /\ generation_min_tokens \in CountGenMinChoices
    /\ prompt_to_generation_ratio \in CountRatioChoices
    /\ nextId = Cardinality(Backends) + 1
    /\ registered = <<>>
    /\ call = NoCall
    /\ threads = [t \in Threads |-> Idle]
    /\ stores = <<>>

count_with_llm_rule(llm, max_tokens) ==
    /\ Len(rules) < MaxCountRules
    /\ Register("with_llm_rule", llm, max_tokens)
    /\ UNCHANGED concurrent

\* selector.get_expected_total_tokens(prompt, function_schemas, estimate,
\* expected_generated_tokens), called directly
call_get_expected_total_tokens(req, estimate) ==
    LET base == [NoCall EXCEPT !.op = "get_expected_total_tokens",
                               !.request = Some([req EXCEPT !.streaming = estimate])]
    IN  /\ IF ~estimate /\ 0 \notin DOMAIN llms
           THEN \* self.llms[0] of a selector without backends
                call' = [base EXCEPT !.raised = "KeyError"]
           ELSE call' = [base EXCEPT
                           !.returned = Some(get_expected_total_tokens(llms,
                               generation_min_tokens, prompt_to_generation_ratio,
                               req.prompt, req.function_schemas, estimate,
                               req.expected_generated_tokens)),
                           !.counted_with =
                               IF estimate THEN {} ELSE {TokenizerLlm(llms).id}]
        /\ UNCHANGED <<rules, llms, streamable_llms_cache, generation_min_tokens,
                       prompt_to_generation_ratio, nextId, registered, concurrent>>

\* selector.get_model_window(model_name), called directly
call_get_model_window(model_name) ==
    /\ call' = [NoCall EXCEPT !.op = "get_model_window",
                              !.request = Some(model_name),
                              !.max_tokens = WindowOf[model_name]]
    /\ UNCHANGED <<rules, llms, streamable_llms_cache, generation_min_tokens,
                   prompt_to_generation_ratio, nextId, registered, concurrent>>

NextCount ==
    \/ \E a \in RuleArgs : count_with_llm_rule(a[1], a[2])
    \/ \E req \in CountRequests, estimate \in BOOLEAN :
           call_get_expected_total_tokens(req, estimate)
    \/ \E model_name \in ModelNames : call_get_model_window(model_name)

SpecCount == InitCount /\ [][NextCount]_vars

\* a direct call of get_expected_total_tokens that returned
Counted == call.op = "get_expected_total_tokens" /\ call.raised = "none"

\* the prompt tokens of the counted call (the request's streaming field
\* carries the estimate flag of a direct call)
PromptTokens ==
    LET req == The(call.request)
    IN  get_token_count(llms, req.prompt, req.function_schemas, req.streaming)

\* C11: get_expected_total_tokens returns prompt_tokens + the expected
\* generation size whenever one is passed, 0 included; otherwise
\* prompt_tokens + the generation minimum when one is configured; otherwise
\* prompt_tokens + prompt_tokens * ratio.
C11_GenerationSizeResolution ==
    Counted =>
      LET req == The(call.request)
          expected == req.expected_generated_tokens
          ratio == IF prompt_to_generation_ratio = None THEN Rat(0, 1)
                   ELSE The(prompt_to_generation_ratio)
          total == The(call.returned)
      IN  IF expected # None
          THEN RatEq(total, Rat(PromptTokens + The(expected), 1))
          ELSE IF generation_min_tokens # None
          THEN RatEq(total, Rat(PromptTokens + The(generation_min_tokens), 1))
          ELSE RatEq(total, Rat(PromptTokens * (ratio.den + ratio.num), ratio.den))


\* the names of ModelNames that pattern k of MODEL_LIMITS matches
MatchedBy ==
    [k \in DOMAIN MODEL_LIMITS |->
        {n \in ModelNames : ReMatch(MODEL_LIMITS[k].pattern, Chars(n))}]

\* pattern j is broader than pattern k: it matches all that k matches and more
Broader(j, k) == MatchedBy[k] \subseteq MatchedBy[j] /\ MatchedBy[j] # MatchedBy[k]

\* the position of the claude-v\d(\.\d+)?-100k pattern in MODEL_LIMITS
Claude100k == CHOOSE k \in DOMAIN MODEL_LIMITS : MODEL_LIMITS[k].max_tokens = 100000

\* C19: no pattern of MODEL_LIMITS is shadowed by a broader pattern declared
\* before it: a name that matches a more specific pattern resolves to that
\* pattern's limit; in particular a name matching claude-v\d(\.\d+)?-100k,
\* such as claude-v1-100k, resolves to 100000 and not to 9000.
C19_NoPatternShadowed ==
    call.op = "get_model_window" =>
      LET n == The(call.request)
      IN  /\ \A k \in DOMAIN MODEL_LIMITS :
                 /\ n \in MatchedBy[k]
                 /\ \E j \in 1..(k - 1) : n \in MatchedBy[j] /\ Broader(j, k)
                 => call.max_tokens = Some(MODEL_LIMITS[k].max_tokens)
          /\ n \in MatchedBy[Claude100k] => call.max_tokens = Some(100000)


\* C12: on a selector with exactly one rule, get_llm returns that rule's
\* backend for every prompt and expected generation size, on the fast path
\* and on the slow path; it raises nothing and resolves no position but 0.
C12_SingleRuleAlwaysChosen ==
    (Selected /\ Len(rules) = 1) =>
        /\ call.raised = "none"
        /\ call.index = Some(0)
        /\ ReturnedFor(RegisteredAt(0))

\* a single-rule selector was asked for a total its only threshold does not
\* cover, counted exactly, and answered
C12_Witness ==
    /\ Selected
    /\ Len(rules) = 1
    /\ call.exact_total # None
    /\ Covering(The(call.exact_total)) = {}
    /\ call.returned # None


\* c was constructed from the backend b: same class, same model
CloneOf(c, b) == c.cls = b.cls /\ c.model_name = b.model_name

\* C13: however with_llm_rule and get_llm(streaming=True) calls alternate,
\* a streaming get_llm returns a clone of the backend the same call with
\* streaming=False would return: every entry of the streaming cache at
\* index i is a clone of the backend now mapped at index i, also when rules
\* were inserted after the entry was cached.
C13_CacheFollowsBackends ==
    \A i \in DOMAIN streamable_llms_cache :
        /\ i \in DOMAIN llms
        /\ CloneOf(streamable_llms_cache[i], llms[i])


\* C14: get_llm computes the estimated total first; when it is strictly less
\* than the first threshold, position 0 is chosen and the exact tokenizer is
\* not invoked in that call; the exact tokenizer is invoked only when the
\* estimate is >= the first threshold, an equal estimate included.
C14_ExactCountOnlyOffFastPath ==
    Selected =>
      LET req == The(call.request)
          est == EstimateTotal(req)
      IN  /\ call.estimate_total = Some(est)
          /\ BelowFirst(est) =>
                 /\ call.index = Some(0)
                 /\ call.counted_with = {}
                 /\ call.exact_total = None
          /\ ~BelowFirst(est) =>
                 /\ call.counted_with # {}
                 /\ call.exact_total = Some(ExactTotal(req))

\* get_llm was called with an estimate equal to the first threshold and
\* counted exactly
C14_Witness ==
    /\ Selected
    /\ call.estimate_total # None
    /\ RatEq(The(call.estimate_total), Rat(Threshold(0), 1))
    /\ call.counted_with # {}
    /\ call.returned # None


\* C16: get_llm never changes the rule table or the backend mapping; with
\* streaming=False it leaves the whole selector state unchanged, with
\* streaming=True it changes at most the streaming-cache entry of the chosen
\* index, and a call that hits the cache changes nothing.
C16_GetLlmFrame ==
    [][call'.op = "get_llm" =>
         LET request == The(call'.request)
             cache == streamable_llms_cache
         IN  /\ rules' = rules
             /\ llms' = llms
             /\ generation_min_tokens' = generation_min_tokens
             /\ prompt_to_generation_ratio' = prompt_to_generation_ratio
             /\ ~request.streaming => cache' = cache
             /\ \A i \in DOMAIN cache \cup DOMAIN cache' :
                    Some(i) # call'.index =>
                        /\ i \in DOMAIN cache
                        /\ i \in DOMAIN cache'
                        /\ cache'[i] = cache[i]
             /\ \A i \in DOMAIN cache : Some(i) = call'.index => cache' = cache
    ]_vars

\* a streaming get_llm has just cached a clone next to an older entry
C16_Witness ==
    /\ Selected
    /\ The(call.request).streaming
    /\ call.constructed # None
    /\ Cardinality(DOMAIN streamable_llms_cache) >= 2

\* C17: over any sequence of with_llm_rule and get_llm calls the streaming
\* cache only grows: an entry, once there, is never removed and never
\* replaced by another clone, and with_llm_rule does not touch the cache.
C17_CacheOnlyGrows ==
    [][/\ \A i \in DOMAIN streamable_llms_cache :
              /\ i \in DOMAIN streamable_llms_cache'
              /\ streamable_llms_cache'[i] = streamable_llms_cache[i]
       /\ call'.op \in {"with_llm_rule", "with_llm"} =>
              streamable_llms_cache' = streamable_llms_cache
    ]_vars

\* a rule was registered on a selector that holds a cached clone
C17_Witness ==
    /\ call.op = "with_llm_rule"
    /\ call.raised = "none"
    /\ DOMAIN streamable_llms_cache # {}


\* the backend passed to the chronologically first registration
FirstRegistered ==
    (CHOOSE r \in {registered[i] : i \in 1..Len(registered)} : r.seq = 1).llm

\* the exact total of req as counted with the tokenizer of backend b
ExactTotalWith(b, req) ==
    get_expected_total_tokens([k \in {0} |-> b], generation_min_tokens,
        prompt_to_generation_ratio, req.prompt, req.function_schemas, FALSE,
        req.expected_generated_tokens)

\* get_llm counted the prompt exactly
CountedExactly == Selected /\ call.counted_with # {} /\ call.exact_total # None

\* C18 as stated: exact counting always uses the tokenizer of the backend
\* passed to the chronologically first with_llm_rule call, whatever the
\* thresholds of later registrations.
C18_CountsWithFirstRegistered ==
    CountedExactly =>
        call.exact_total = Some(ExactTotalWith(FirstRegistered, The(call.request)))

\* C18 amended: exact counting always uses the tokenizer of the backend
\* mapped at position 0, the one registered with the rule now first in the
\* table (the smallest threshold, the earliest registered among equals).
C18_CountsWithPositionZero ==
    CountedExactly =>
        /\ call.counted_with = {RegisteredAt(0).id}
        /\ call.exact_total = Some(ExactTotalWith(RegisteredAt(0), The(call.request)))

\* an exact count on a table whose first rule was registered later than
\* another, with a backend of another tokenizer
C18_Witness ==
    /\ CountedExactly
    /\ registered[1].seq # 1
    /\ RegisteredAt(0).cls # FirstRegistered.cls
    /\ call.exact_total
         # Some(ExactTotalWith(FirstRegistered, The(call.request)))


(***************************************************************************)
(* Two callers in get_llm(streaming=True) at once.  A caller resolves its  *)
(* rule position (lines 76-95, which only read), then runs lines 97-99 one *)
(* bytecode-level step at a time: the membership test, the construction of *)
(* the clone, the store into the cache, and the read that is returned.     *)
(* The interpreter may switch callers between any two of these steps.      *)
(***************************************************************************)
MaxRaceRules == 2

StreamingRequests == {req \in Requests : req.streaming}

race_with_llm_rule(llm, max_tokens) ==
    /\ \A t \in Threads : threads[t].pc = "idle"
    /\ Len(rules) < MaxRaceRules
    /\ Register("with_llm_rule", llm, max_tokens)
    /\ UNCHANGED concurrent

\* lines 76-95 of caller t: the position is resolved, or the call raises
Resolve(t, req) ==
    /\ threads[t].pc = "idle"
    /\ LET raises == NoLlms(llms) \/ Len(rules) = 0
           result_index ==
               ResultIndex(rules,
                   get_expected_total_tokens(llms, generation_min_tokens,
                       prompt_to_generation_ratio, req.prompt,
                       req.function_schemas, TRUE, req.expected_generated_tokens),
                   get_expected_total_tokens(llms, generation_min_tokens,
                       prompt_to_generation_ratio, req.prompt,
                       req.function_schemas, FALSE, req.expected_generated_tokens))
       IN  threads' =
             [threads EXCEPT ![t] =
                IF raises THEN [@ EXCEPT !.pc = "raised", !.request = Some(req)]
                ELSE IF result_index \notin DOMAIN llms
                THEN [@ EXCEPT !.pc = "raised", !.request = Some(req),
                               !.index = Some(result_index)]
                ELSE [@ EXCEPT !.pc = "resolved", !.request = Some(req),
                               !.index = Some(result_index)]]
    /\ UNCHANGED <<rules, llms, streamable_llms_cache, generation_min_tokens,
                   prompt_to_generation_ratio, nextId, registered, call, stores>>

\* `if result_index not in self.streamable_llms_cache`
Check(t) ==
    /\ threads[t].pc = "resolved"
    /\ threads' = [threads EXCEPT ![t].pc =
                      IF CacheMiss(streamable_llms_cache, The(threads[t].index))
                      THEN "miss" ELSE "hit"]
    /\ UNCHANGED <<rules, llms, streamable_llms_cache, generation_min_tokens,
                   prompt_to_generation_ratio, nextId, registered, call, stores>>

\* `make_llm_streamable(self.llms[result_index])`, not yet stored
Build(t) ==
    /\ threads[t].pc = "miss"
    /\ threads' = [threads EXCEPT
                     ![t].pc = "built",
                     ![t].clone = Some(make_llm_streamable(
                                          llms[The(threads[t].index)], nextId))]
    /\ nextId' = nextId + 1
    /\ UNCHANGED <<rules, llms, streamable_llms_cache, generation_min_tokens,
                   prompt_to_generation_ratio, registered, call, stores>>

\* `self.streamable_llms_cache[result_index] = ...`
Store(t) ==
    /\ threads[t].pc = "built"
    /\ streamable_llms_cache' =
           DictSet(streamable_llms_cache, The(threads[t].index),
                   The(threads[t].clone))
    /\ stores' = Append(stores, [thread |-> t, index |-> The(threads[t].index),
                                 clone |-> The(threads[t].clone)])
    /\ threads' = [threads EXCEPT ![t].pc = "hit"]
    /\ UNCHANGED <<rules, llms, generation_min_tokens,
                   prompt_to_generation_ratio, nextId, registered, call>>

\* `return self.streamable_llms_cache[result_index]`
Return(t) ==
    /\ threads[t].pc = "hit"
    /\ threads' = [threads EXCEPT
                     ![t].pc = "done",
                     ![t].returned =
                         Some(streamable_llms_cache[The(threads[t].index)])]
    /\ UNCHANGED <<rules, llms, streamable_llms_cache, generation_min_tokens,
                   prompt_to_generation_ratio, nextId, registered, call, stores>>

NextRace ==
    \/ \E a \in RuleArgs : race_with_llm_rule(a[1], a[2])
    \/ \E t \in Threads, req \in StreamingRequests : Resolve(t, req)
    \/ \E t \in Threads : Check(t)
    \/ \E t \in Threads : Build(t)
    \/ \E t \in Threads : Store(t)
    \/ \E t \in Threads : Return(t)

SpecRace == Init /\ [][NextRace]_vars

\* both callers resolved the same position, both saw its entry missing and
\* built a clone, and both have returned
BothMissedAndDone ==
    /\ \A t \in Threads : threads[t].pc = "done" /\ threads[t].clone # None
    /\ \A t, u \in Threads : threads[t].index = threads[u].index

\* the clone of the last store into position i
LastStored(i) ==
    LET at == {k \in 1..Len(stores) : stores[k].index = i}
    IN  stores[CHOOSE k \in at : \A j \in at : j <= k].clone

\* C15: when two get_llm(streaming=True) calls run at once, resolve the same
\* position and both miss the cache, then in every interleaving, once both
\* have completed, the cache holds one entry for the position, the clone
\* written last, and each call has returned a streaming clone of the chosen
\* backend.
C15_RaceReturnsStreamingClones ==
    BothMissedAndDone =>
        \A t \in Threads :
            LET i == The(threads[t].index)
                returned == The(threads[t].returned)
            IN  /\ i \in DOMAIN streamable_llms_cache
                /\ streamable_llms_cache[i] = LastStored(i)
                /\ CloneOf(returned, llms[i])
                /\ returned.streaming

\* C15 apart from the streaming flag of the clones: after two concurrent
\* misses of one position the cache holds the clone written last, and each
\* call returned a clone of the chosen backend that one of the two built.
C15_LastWriteWins ==
    BothMissedAndDone =>
        \A t \in Threads :
            LET i == The(threads[t].index)
                returned == The(threads[t].returned)
            IN  /\ i \in DOMAIN streamable_llms_cache
                /\ streamable_llms_cache[i] = LastStored(i)
                /\ CloneOf(returned, llms[i])
                /\ \E u \in Threads : threads[u].clone = Some(returned)

\* two clones were built for one position and the caller that stored first
\* returned its own clone, which the cache no longer holds
C15_FirstWriterKeepsItsClone ==
    /\ BothMissedAndDone
    /\ \E t \in Threads :
           /\ threads[t].returned = threads[t].clone
           /\ streamable_llms_cache[The(threads[t].index)] # The(threads[t].clone)

====
